---- MODULE Spec2Model ----
(***************************************************************************)
(* A model of the /imagine request handler and of the delivery pipeline    *)
(* of generated images:                                                    *)
(*   app/mybot/services/response_service/answer_parts/image_generation.py  *)
(*   app/mybot/handlers/command_handler/imagine_command.py                 *)
(*                                                                         *)
(* Spec        : one call of _send_imagine_result (downloads, preview      *)
(*               format fallback, no-caption retry, originals delivery).   *)
(* SpecHandler : concurrent calls of imagine_command over one shared media *)
(*               group cache (_collect_media_group_files, the merge of the *)
(*               replied-to message's media, _reply_help).                 *)
(*                                                                         *)
(* Every await of the source is one step of the model; the code between    *)
(* two awaits (the except clauses included) belongs to the step that ends  *)
(* at the next await.  The chat transport, the downloads and the arrival   *)
(* of messages are the environment: each call returns or raises.           *)
(***************************************************************************)
EXTENDS Integers, Sequences, FiniteSets, TLC

VARIABLES
    \* ---- _send_imagine_result: arguments
    image_urls,            \* image_urls
    final_answer,          \* final_answer ("" when not provided)
    trigger_message_id,    \* trigger_message.message_id, NoneId when trigger_message is None
    \* ---- _send_imagine_result: locals
    pc,                    \* the await the call is suspended at
    url_idx,               \* position of the download loop in image_urls[:10]
    downloaded_files,      \* downloaded_files
    mode_idx,              \* position of the loop over parse_modes
    preview_message_id,    \* preview_message_id
    sent_message,          \* the sub-function's sent_message(s): id of the first message
    orig_preview_id,       \* _send_original_files: preview_message_id of the running call
    result,                \* the value returned ("none" while running)
    \* ---- environment
    next_id,               \* message id the transport gives to the next sent message
    uuid_ctr,              \* number of uuid4() names generated so far
    failed_downloads,      \* downloads that failed so far in this call
    \* ---- what the transport and the network saw (observation only)
    fetched,               \* URLs requested, in order
    fetch_ok,              \* for each request, whether it gave a file
    last_call,             \* the most recent transport call
    captioned_modes,       \* parse_mode arguments of the captioned preview sends, in order
    nocaption_sends,       \* number of no-caption resends since the last captioned send
    preview_ok,            \* number of preview sends that succeeded at the transport
    delete_calls,          \* number of delete_message calls made for the placeholder
    originals_log,         \* reply targets and outcomes of the originals sends, in order
    escaped,               \* exceptions caught by _send_imagine_result's except clause, in order
    \* ---- imagine_command: the chat and the process-wide cache
    messages,              \* the messages of the chat, by message_id
    all_kinds,             \* download_media_group_files returns a key for every media kind
    media_group_cache,     \* media_group_id -> the fragments recorded, in order
    \* ---- imagine_command: one record of locals per running call
    calls,
    \* ---- what each call did (observation only)
    seen

handler_vars == << messages, all_kinds, media_group_cache, calls, seen >>

delivery_vars == << image_urls, final_answer, trigger_message_id, pc, url_idx, downloaded_files,
           mode_idx, preview_message_id, sent_message, orig_preview_id, result, next_id,
           uuid_ctr, failed_downloads, fetched, fetch_ok, last_call, captioned_modes,
           nocaption_sends, preview_ok, delete_calls, originals_log, escaped >>

vars == << delivery_vars, handler_vars >>

----------------------------------------------------------------------------
(* Bounds of the model *)

\* Longest image_urls list the generation collaborator returns.
MaxUrls == 12
\* Most downloads that fail within one call.
MaxFailedDownloads == 2

----------------------------------------------------------------------------
(* Python values *)

\* None where the source holds Optional[int]: Telegram message ids are positive, and
\* `a or b`, `if a` treat None and 0 alike.
NoneId == 0

\* None where the source holds an optional string or ParseMode.
PyNone == "<None>"

\* bool(x) of an Optional[int]
Truthy(x) == x # NoneId

\* a or b
PyOr(a, b) == IF Truthy(a) THEN a ELSE b

\* str(x) of a ParseMode member (a StrEnum: its value) or of None
Str(x) == IF x = PyNone THEN "None" ELSE x

\* The substring test `"Message caption is too long" in str(e)`: the transport's
\* exceptions are told apart only by it.
CaptionTooLong(e) == e = "too_long"

\* What a transport call does: return, or raise one of the two kinds of exception.
Outcomes == {"ok", "too_long", "other"}

\* _send_original_files catches every exception alike (except Exception as e).
OriginalsOutcomes == {"ok", "other"}

----------------------------------------------------------------------------
(* _download_image_from_url *)

\* image_urls[:10]
MaxMediaGroup == 10

\* str.lower() on the extensions of the model
Lower(ext) ==
    CASE ext = "PNG" -> "png"
      [] ext = "JPG" -> "jpg"
      [] OTHER -> ext

ImageExtensions == {"jpg", "jpeg", "png", "webp"}

\* Path(urlparse(url).path).name of the URLs the model draws from: the last path
\* segment, as stem and extension ("" and "" for a URL whose path is empty).
UrlNames == << [stem |-> "a", ext |-> "png"],
               [stem |-> "gen", ext |-> ""],
               [stem |-> "a", ext |-> "png"],
               [stem |-> "B", ext |-> "JPG"],
               [stem |-> "", ext |-> ""],
               [stem |-> "c", ext |-> "gif"] >>

\* The i-th URL of a collaborator's answer: every URL is its own (its host differs),
\* and the last path segments repeat.
UrlAt(i) == [host |-> i, name |-> UrlNames[((i - 1) % Len(UrlNames)) + 1]]

UuidNames == << "u1", "u2", "u3", "u4", "u5", "u6", "u7", "u8", "u9", "u10", "u11" >>

\* filename: the URL's last path segment when it is not empty and ends with an image
\* extension, else f"{uuid.uuid4().hex}.jpeg"
NeedsUuid(url) == url.name.stem = "" \/ Lower(url.name.ext) \notin ImageExtensions

Filename(url, k) ==
    IF NeedsUuid(url)
    THEN [stem |-> UuidNames[k + 1], ext |-> "jpeg"]
    ELSE url.name

\* The loop without the slice: for url in image_urls
UrlsToFetchUncapped(urls) == urls

\* for url in image_urls[:10]
UrlsToFetch(urls) == SubSeq(urls, 1, IF Len(urls) < MaxMediaGroup THEN Len(urls) ELSE MaxMediaGroup)

----------------------------------------------------------------------------
(* _send_imagine_result: captions and formats *)

\* parse_modes = [ParseMode.HTML, ParseMode.MARKDOWN_V2, None]
parse_modes == << "HTML", "MarkdownV2", PyNone >>

\* params.get("caption_markdown", ""), params.get("caption_html", caption_markdown)
ParamsCaptionMarkdown == "params_md"
ParamsCaptionHtml == "params_html"

caption_markdown == IF final_answer # "" THEN final_answer ELSE ParamsCaptionMarkdown
caption_html == IF final_answer # "" THEN final_answer ELSE ParamsCaptionHtml

\* caption = caption_html if parse_mode == ParseMode.HTML else caption_markdown
Caption(parse_mode) == IF parse_mode = "HTML" THEN caption_html ELSE caption_markdown

\* The message ids of one call: the placeholder (initial_message.message_id), the
\* triggering /imagine message when there is one, and the first id the transport gives
\* to a message it sends (later ones follow it).
MessageIds == [initial |-> 1, trigger |-> 2, first_sent |-> 3]
InitialMessageId == MessageIds.initial
TriggerId == MessageIds.trigger
FirstSentId == MessageIds.first_sent

NoCall == [op |-> "none", caption |-> PyNone, parse_mode |-> PyNone, reply_to |-> NoneId,
           message_id |-> NoneId, n_files |-> 0, outcome |-> "none"]

Call(op, caption, parse_mode, reply_to, message_id, n_files, outcome) ==
    [op |-> op, caption |-> caption, parse_mode |-> parse_mode, reply_to |-> reply_to,
     message_id |-> message_id, n_files |-> n_files, outcome |-> outcome]

Single == Len(downloaded_files) = 1

\* reply_to_message_id=trigger_message.message_id (_handle_answer_parts_image_generation)
reply_to_message_id == trigger_message_id

----------------------------------------------------------------------------
(* Initial state: one call of _send_imagine_result about to start *)

\* The locals and the observations of a call of _send_imagine_result that has not run.
DeliveryAt(start_pc) ==
    /\ pc = start_pc
    /\ url_idx = 1
    /\ downloaded_files = << >>
    /\ mode_idx = 1
    /\ preview_message_id = NoneId
    /\ sent_message = NoneId
    /\ orig_preview_id = NoneId
    /\ result = "none"
    /\ next_id = FirstSentId
    /\ uuid_ctr = 0
    /\ failed_downloads = 0
    /\ fetched = << >>
    /\ fetch_ok = << >>
    /\ last_call = NoCall
    /\ captioned_modes = << >>
    /\ nocaption_sends = 0
    /\ preview_ok = 0
    /\ delete_calls = 0
    /\ originals_log = << >>
    /\ escaped = << >>

InitDelivery ==
    /\ \E n \in 0..MaxUrls : image_urls = [i \in 1..n |-> UrlAt(i)]
    /\ final_answer \in {"", "answer"}
    /\ trigger_message_id \in {NoneId, TriggerId}
    /\ DeliveryAt("start")

args == << image_urls, final_answer, trigger_message_id >>
observed == << fetched, fetch_ok, last_call, captioned_modes, nocaption_sends, preview_ok,
               delete_calls, originals_log, escaped >>
transport_obs == << last_call, captioned_modes, nocaption_sends, preview_ok, delete_calls,
                    originals_log, escaped >>
send_locals == << mode_idx, preview_message_id, sent_message, orig_preview_id >>

Return(value) == pc' = "done" /\ result' = value

----------------------------------------------------------------------------
(* _send_imagine_result: the download loop *)

\* if not image_urls: return False
StartCall ==
    /\ pc = "start"
    /\ IF Len(image_urls) = 0 THEN Return(FALSE) ELSE pc' = "download" /\ result' = result
    /\ UNCHANGED << handler_vars, args, url_idx, downloaded_files, send_locals, next_id, uuid_ctr,
                    failed_downloads, observed >>

\* The check `if not downloaded_files` left out
AfterDownloadsUnchecked(files) == pc' = "send_preview" /\ result' = result

\* After the loop over image_urls[:10]: `if not downloaded_files: return False`, else the
\* first format of parse_modes is tried.
AfterDownloads(files) ==
    IF Len(files) = 0 THEN Return(FALSE) ELSE pc' = "send_preview" /\ result' = result

\* The loop left at the first download that fails
DownloadStepAbortOnFailure(ok) ==
    LET url == image_urls[url_idx]
        files == IF ok THEN Append(downloaded_files, Filename(url, uuid_ctr))
                 ELSE downloaded_files
    IN  /\ fetched' = Append(fetched, url)
        /\ fetch_ok' = Append(fetch_ok, ok)
        /\ uuid_ctr' = IF NeedsUuid(url) THEN uuid_ctr + 1 ELSE uuid_ctr
        /\ downloaded_files' = files
        /\ failed_downloads' = IF ok THEN failed_downloads ELSE failed_downloads + 1
        /\ url_idx' = url_idx + 1
        /\ IF ~ok \/ url_idx + 1 > Len(UrlsToFetch(image_urls))
           THEN AfterDownloads(files)
           ELSE pc' = "download" /\ result' = result

\* One pass of `for url in image_urls[:10]`: file_path = await _download_image_from_url(url).
\* The file name is chosen before the request is made; the request returns the file's
\* path or, on any exception, None.
DownloadStep(ok) ==
    LET url == image_urls[url_idx]
        files == IF ok THEN Append(downloaded_files, Filename(url, uuid_ctr))
                 ELSE downloaded_files
    IN  /\ fetched' = Append(fetched, url)
        /\ fetch_ok' = Append(fetch_ok, ok)
        /\ uuid_ctr' = IF NeedsUuid(url) THEN uuid_ctr + 1 ELSE uuid_ctr
        /\ downloaded_files' = files
        /\ failed_downloads' = IF ok THEN failed_downloads ELSE failed_downloads + 1
        /\ url_idx' = url_idx + 1
        /\ IF url_idx + 1 > Len(UrlsToFetch(image_urls))
           THEN AfterDownloads(files)
           ELSE pc' = "download" /\ result' = result

Download ==
    /\ pc = "download"
    /\ url_idx <= Len(UrlsToFetch(image_urls))
    /\ \E ok \in BOOLEAN :
          /\ ok \/ failed_downloads < MaxFailedDownloads
          /\ DownloadStep(ok)
    /\ UNCHANGED << handler_vars, args, send_locals, next_id, transport_obs >>

----------------------------------------------------------------------------
(* _send_imagine_result: the loop over parse_modes *)

\* The transport answers a send with the message (the messages of a media group) it
\* created; their ids follow one another.
IdsUsed(op) == IF op \in {"send_media_group", "send_document_group"} THEN Len(downloaded_files) ELSE 1

Observe(call) == last_call' = call

\* _send_original_files is entered: `if not downloaded_files: return False` does not
\* apply (the list is not empty here), reply_to_message_id is computed at the send.
GoOriginals(preview_id) ==
    /\ pc' = "send_originals"
    /\ result' = result
    /\ mode_idx' = mode_idx
    /\ preview_message_id' = preview_id
    /\ orig_preview_id' = preview_id
    /\ sent_message' = NoneId

\* `continue` without the loop moving on: the same format is tried again
NextFormatRetrySame ==
    /\ pc' = "send_preview"
    /\ result' = result
    /\ mode_idx' = mode_idx
    /\ preview_message_id' = preview_message_id
    /\ orig_preview_id' = orig_preview_id
    /\ sent_message' = NoneId

\* `continue`: the next parse mode, or `return False` after the last one.
NextFormat ==
    /\ IF mode_idx < Len(parse_modes)
       THEN pc' = "send_preview" /\ mode_idx' = mode_idx + 1 /\ result' = result
       ELSE Return(FALSE) /\ mode_idx' = mode_idx
    /\ preview_message_id' = preview_message_id
    /\ orig_preview_id' = orig_preview_id
    /\ sent_message' = NoneId

\* The except clause sending the originals after the last format whatever was raised
OuterExceptOriginalsAtEnd(e) ==
    /\ escaped' = Append(escaped, e)
    /\ IF ~CaptionTooLong(e) /\ mode_idx < Len(parse_modes)
       THEN NextFormat
       ELSE GoOriginals(preview_message_id)

\* except Exception as e (of _send_imagine_result): an exception without the
\* caption-too-long text moves on to the next format; one with it sends the originals
\* with the preview_message_id held so far and returns True.
OuterExcept(e) ==
    /\ escaped' = Append(escaped, e)
    /\ IF ~CaptionTooLong(e) THEN NextFormat ELSE GoOriginals(preview_message_id)

\* The sub-functions' except clause without the resend: every exception is raised
\* again, and a caption-too-long one moves on to the next format.
InnerExceptNoResend(e) == NextFormat /\ escaped' = Append(escaped, e)

\* The sub-functions deleting the placeholder whatever the send raised
InnerExceptDeleteAnyway(e) ==
    /\ pc' = IF CaptionTooLong(e) THEN "send_nocaption" ELSE "delete_after_send"
    /\ result' = result
    /\ mode_idx' = mode_idx
    /\ preview_message_id' = preview_message_id
    /\ orig_preview_id' = orig_preview_id
    /\ sent_message' = NoneId
    /\ escaped' = escaped

\* except Exception as e (of _send_single_photo_with_caption and of
\* _send_photo_group_with_caption): caption too long resends without caption, anything
\* else is raised again.
InnerExcept(e) ==
    IF CaptionTooLong(e)
    THEN /\ pc' = "send_nocaption"
         /\ result' = result
         /\ mode_idx' = mode_idx
         /\ preview_message_id' = preview_message_id
         /\ orig_preview_id' = orig_preview_id
         /\ sent_message' = NoneId
         /\ escaped' = escaped
    ELSE OuterExcept(e)

\* The sub-function returned its message(s): `if sent_message: preview_message_id = ...`,
\* then the originals are sent.
PreviewReturned(sent) ==
    /\ escaped' = escaped
    /\ GoOriginals(IF Truthy(sent) THEN sent ELSE preview_message_id)

\* A send of the preview succeeded: the sub-function goes on to delete the placeholder.
PreviewSent(next_pc) ==
    /\ pc' = next_pc
    /\ result' = result
    /\ mode_idx' = mode_idx
    /\ preview_message_id' = preview_message_id
    /\ orig_preview_id' = orig_preview_id
    /\ sent_message' = next_id
    /\ escaped' = escaped

\* context.bot.send_photo / send_media_group with the caption and str(parse_mode)
SendPreview(op) ==
    /\ pc = "send_preview"
    /\ \E o \in Outcomes :
          LET parse_mode == parse_modes[mode_idx]
              ok == o = "ok"
          IN  /\ Observe(Call(op, Caption(parse_mode), Str(parse_mode), reply_to_message_id,
                              IF ok THEN next_id ELSE NoneId, Len(downloaded_files), o))
              /\ captioned_modes' = Append(captioned_modes, Str(parse_mode))
              /\ nocaption_sends' = 0
              /\ preview_ok' = IF ok THEN preview_ok + 1 ELSE preview_ok
              /\ next_id' = IF ok THEN next_id + IdsUsed(op) ELSE next_id
              /\ IF ok THEN PreviewSent("delete_after_send") ELSE InnerExcept(o)
    /\ UNCHANGED << handler_vars, args, url_idx, downloaded_files, uuid_ctr, failed_downloads, fetched, fetch_ok,
                    originals_log, delete_calls >>

\* _send_single_photo_with_caption, lines 85-91
SendSinglePhoto == Single /\ SendPreview("send_photo")

\* _send_photo_group_with_caption, lines 117-128
SendPhotoGroup == ~Single /\ SendPreview("send_media_group")

\* context.bot.delete_message after the captioned send (lines 92-93, 129-130)
DeleteAfterSend ==
    /\ pc = "delete_after_send"
    /\ \E o \in Outcomes :
          /\ Observe(Call("delete_message", PyNone, PyNone, NoneId, InitialMessageId, 0, o))
          /\ delete_calls' = delete_calls + 1
          /\ IF o = "ok" THEN PreviewReturned(sent_message) ELSE InnerExcept(o)
    /\ UNCHANGED << handler_vars, args, url_idx, downloaded_files, next_id, uuid_ctr, failed_downloads,
                    fetched, fetch_ok, captioned_modes, nocaption_sends, preview_ok, originals_log >>

\* The resend without caption and without parse mode (lines 97-99, 135-141). It runs in
\* the sub-function's except clause: what it raises reaches _send_imagine_result.
SendNoCaption(op) ==
    /\ pc = "send_nocaption"
    /\ \E o \in Outcomes :
          LET ok == o = "ok"
          IN  /\ Observe(Call(op, PyNone, PyNone, reply_to_message_id,
                              IF ok THEN next_id ELSE NoneId, Len(downloaded_files), o))
              /\ nocaption_sends' = nocaption_sends + 1
              /\ preview_ok' = IF ok THEN preview_ok + 1 ELSE preview_ok
              /\ next_id' = IF ok THEN next_id + IdsUsed(op) ELSE next_id
              /\ IF ok THEN PreviewSent("delete_after_nocaption") ELSE OuterExcept(o)
    /\ UNCHANGED << handler_vars, args, url_idx, downloaded_files, uuid_ctr, failed_downloads, fetched, fetch_ok,
                    captioned_modes, originals_log, delete_calls >>

SendSinglePhotoNoCaption == Single /\ SendNoCaption("send_photo")

SendPhotoGroupNoCaption == ~Single /\ SendNoCaption("send_media_group")

\* context.bot.delete_message after the resend (lines 100-101, 142-143)
DeleteAfterNoCaption ==
    /\ pc = "delete_after_nocaption"
    /\ \E o \in Outcomes :
          /\ Observe(Call("delete_message", PyNone, PyNone, NoneId, InitialMessageId, 0, o))
          /\ delete_calls' = delete_calls + 1
          /\ IF o = "ok" THEN PreviewReturned(sent_message) ELSE OuterExcept(o)
    /\ UNCHANGED << handler_vars, args, url_idx, downloaded_files, next_id, uuid_ctr, failed_downloads,
                    fetched, fetch_ok, captioned_modes, nocaption_sends, preview_ok, originals_log >>

----------------------------------------------------------------------------
(* _send_original_files *)

\* The fallback condition without its test of preview_message_id
RetryWithTriggerAlways(preview_id, trigger_id) == Truthy(trigger_id)

\* if preview_message_id and trigger_message_id and preview_message_id != trigger_message_id
RetryWithTrigger(preview_id, trigger_id) ==
    Truthy(preview_id) /\ Truthy(trigger_id) /\ preview_id # trigger_id

\* _send_imagine_result returning what _send_original_files returned
OriginalsResultReturned(sent) == sent

\* Lines 317-325 and 340-348: the value of _send_original_files is dropped, return True
OriginalsResult(sent) == TRUE

\* One send of the originals: send_document for a single file, send_media_group of
\* documents otherwise, replying to `preview_message_id or trigger_message_id`. When it
\* raises, the function calls itself once more with preview_message_id=None, or returns
\* False; _send_imagine_result ignores the value and returns True.
SendOriginals(op) ==
    /\ pc = "send_originals"
    /\ \E o \in OriginalsOutcomes :
          LET target == PyOr(orig_preview_id, trigger_message_id)
              ok == o = "ok"
          IN  /\ Observe(Call(op, "original", PyNone, target,
                              IF ok THEN next_id ELSE NoneId, Len(downloaded_files), o))
              /\ originals_log' = Append(originals_log, [reply_to |-> target, outcome |-> o])
              /\ next_id' = IF ok THEN next_id + IdsUsed(op) ELSE next_id
              /\ IF ~ok /\ RetryWithTrigger(orig_preview_id, trigger_message_id)
                 THEN pc' = "send_originals" /\ result' = result /\ orig_preview_id' = NoneId
                 ELSE Return(OriginalsResult(ok)) /\ orig_preview_id' = orig_preview_id
    /\ UNCHANGED << handler_vars, args, url_idx, downloaded_files, mode_idx, preview_message_id,
                    sent_message, uuid_ctr, failed_downloads, fetched, fetch_ok, captioned_modes,
                    nocaption_sends, preview_ok, escaped, delete_calls >>

SendOriginalDocument == Single /\ SendOriginals("send_document")

SendOriginalGroup == ~Single /\ SendOriginals("send_document_group")

----------------------------------------------------------------------------
(* imagine_command: the chat *)

\* Most fragments in the media group of the chat (SpecHandler).
MaxGroupSize == 3
\* Most fragments in the media group when two calls run concurrently (SpecRace).
RaceGroupSize == 2

\* The two consumers of a media group: imagine_command called by the CommandHandler,
\* and imagine_command reached from the message-listening path.
Handlers == {"command", "listener"}

\* The media kinds of the mapping returned by download_media_group_files.
Kinds == {"photos", "documents"}

NoGroup == ""
Album == "g1"

NoMedia == [k \in Kinds |-> << >>]
Photo(path) == [NoMedia EXCEPT !["photos"] = << path >>]
Document(path) == [NoMedia EXCEPT !["documents"] = << path >>]

Message(id, group, media, reply_to) ==
    [message_id |-> id, media_group_id |-> group, media |-> media, reply_to |-> reply_to]

\* The message ids of the chat outside the album.
Ids == [text |-> 10, photo |-> 11, reply_to_album |-> 12, same_photo |-> 13, reply_to_photo |-> 14]

\* The fragments of the album are the messages 1..n; every third carries a document, the
\* others a photo; the album was sent as a reply to the photo message, or to nothing.
Fragment(i, album_reply) ==
    Message(i, Album, IF i % 3 = 0 THEN Document(i) ELSE Photo(i), album_reply)

\* A chat: an album of n fragments, a text message, a single photo, a text message that
\* replies to the album's first fragment, a message that replies to the photo with the
\* same photo again (the same local path), and a text message that replies to the photo.
Chat(n, album_reply) ==
    [id \in (1..n) \cup {Ids.text, Ids.photo, Ids.reply_to_album, Ids.same_photo, Ids.reply_to_photo} |->
        CASE id \in 1..n -> Fragment(id, album_reply)
          [] id = Ids.text -> Message(id, NoGroup, NoMedia, NoneId)
          [] id = Ids.photo -> Message(id, NoGroup, Photo(Ids.photo), NoneId)
          [] id = Ids.reply_to_album -> Message(id, NoGroup, NoMedia, 1)
          [] id = Ids.same_photo -> Message(id, NoGroup, Photo(Ids.photo), Ids.photo)
          [] id = Ids.reply_to_photo -> Message(id, NoGroup, NoMedia, Ids.photo)]

AlbumFragments == {id \in DOMAIN messages : messages[id].media_group_id = Album}

----------------------------------------------------------------------------
(* mybot.common: the media group cache and the download of a group's media *)

\* add_message_to_media_group_cache(message): the fragment is appended to the list of its
\* group; recording a fragment already there changes nothing; a message without
\* media_group_id is not cached.
AddToCache(cache, id) ==
    LET g == messages[id].media_group_id
    IN  IF g = NoGroup \/ (\E k \in 1..Len(cache[g]) : cache[g][k] = id)
        THEN cache
        ELSE [cache EXCEPT ![g] = Append(@, id)]

\* get_media_group_messages(message): the fragments recorded for the message's group
GetGroupMessages(cache, id) ==
    LET g == messages[id].media_group_id
    IN  IF g = NoGroup THEN << >> ELSE cache[g]

\* The fragments whose media download_media_group_files(message, bot) resolves: the
\* fragments accumulated for the group, or the message itself when it has no group.
FragmentsOf(cache, id) ==
    IF messages[id].media_group_id = NoGroup THEN << id >> ELSE GetGroupMessages(cache, id)

RECURSIVE MediaOf(_, _)
\* The local paths of one kind over a list of fragments, in the order of the list
MediaOf(frags, kind) ==
    IF Len(frags) = 0 THEN << >>
    ELSE messages[Head(frags)].media[kind] \o MediaOf(Tail(frags), kind)

\* download_media_group_files(message, bot): kind -> paths, with a key for every kind or
\* only for the kinds that have a path
DownloadMediaGroupFiles(cache, id) ==
    LET frags == FragmentsOf(cache, id)
        keys == IF all_kinds THEN Kinds ELSE {k \in Kinds : Len(MediaOf(frags, k)) > 0}
    IN  [k \in keys |-> MediaOf(frags, k)]

----------------------------------------------------------------------------
(* Python dicts and lists *)

\* d.get(k, [])
Get(d, k) == IF k \in DOMAIN d THEN d[k] ELSE << >>

\* bool(d) of a dict
NonEmptyDict(d) == DOMAIN d # {}

\* has_media: some list of the mapping is not empty (lines 135-141)
HasMedia(d) == \E k \in DOMAIN d : Len(d[k]) > 0

----------------------------------------------------------------------------
(* _collect_media_group_files *)

\* if initial_count <= 1 without the bound: the wait is made whatever the count
NeedsWaitAlways(initial_count) == TRUE

\* if initial_count <= 2
NeedsWaitOffByOne(initial_count) == initial_count <= 2

\* if initial_count <= 1
NeedsWait(initial_count) == initial_count <= 1

\* The call without line 102: the message is not added to the cache
RecordFirstSkipped(cache, id) == cache

\* add_message_to_media_group_cache(message), the first statement of the function
RecordFirst(cache, id) == AddToCache(cache, id)

\* len(cached_messages) after the message was added; no count is read for a message
\* without media_group_id
InitialCount(cache, id) == Len(GetGroupMessages(cache, id))

\* Whether the call makes the debounce wait, asyncio.sleep(0.8): lines 105-118
Sleeps(cache, id) ==
    messages[id].media_group_id # NoGroup /\ NeedsWait(InitialCount(cache, id))

\* The fragments of the message's group other than the message are all recorded.
OthersRecorded(cache, id) ==
    \A f \in DOMAIN messages :
        (f # id /\ messages[f].media_group_id # NoGroup
              /\ messages[f].media_group_id = messages[id].media_group_id)
           => \E k \in 1..Len(GetGroupMessages(cache, f)) : GetGroupMessages(cache, f)[k] = f

NoLocals == [pc |-> "absent", message |-> NoneId, prompt |-> "", media_files |-> << >>,
             has_media |-> FALSE, photo_paths |-> << >>, reply_media_files |-> << >>,
             reply_has_media |-> FALSE]

NotCollected == [message |-> NoneId, count |-> 0, waits |-> 0, complete |-> FALSE,
                 done |-> FALSE, from |-> << >>, media_files |-> << >>]

NothingSeen == [trigger |-> NotCollected, reply |-> NotCollected, merged |-> FALSE,
                help |-> 0, help_failed |-> FALSE, reactions |-> 0, generations |-> 0,
                raised |-> FALSE, notices |-> 0, notice_reply_to |-> NoneId]

\* The entry of _collect_media_group_files(message, bot) up to its first await: the
\* message is recorded, and the call sleeps or goes on to the download. Gives the new
\* cache, the await reached and what an observer notes of the entry.
CollectEntry(cache, part, id) ==
    LET recorded == RecordFirst(cache, id)
        sleeps == Sleeps(recorded, id)
    IN  [cache |-> recorded,
         pc |-> IF sleeps THEN "wait_" \o part ELSE "download_" \o part,
         seen |-> [NotCollected EXCEPT !.message = id,
                                       !.count = InitialCount(recorded, id),
                                       !.waits = IF sleeps THEN 1 ELSE 0,
                                       !.complete = ~sleeps /\ OthersRecorded(recorded, id)]]

----------------------------------------------------------------------------
(* imagine_command *)

\* The reply's lists put before the trigger's
MergeMediaReplyFirst(media_files, reply_media_files) ==
    [k \in DOMAIN media_files \cup DOMAIN reply_media_files |->
        Get(reply_media_files, k) \o Get(media_files, k)]

\* Lines 187-196: an empty media_files is replaced by the reply's mapping; otherwise
\* every non-empty list of the reply extends the list of its kind (a new key when the
\* kind is not there yet).
MergeMedia(media_files, reply_media_files) ==
    IF ~NonEmptyDict(media_files)
    THEN reply_media_files
    ELSE [k \in DOMAIN media_files \cup {r \in DOMAIN reply_media_files : Len(reply_media_files[r]) > 0} |->
            Get(media_files, k) \o Get(reply_media_files, k)]

\* Lines 148 and 198-200: photo_paths is media_files.get("photos", []), the very list of
\* the mapping when the key is there, so that list.extend() at line 195 extends it too;
\* then `photo_paths = (photo_paths or []) + reply_media_files["photos"]`.
MergePhotoPaths(media_files, photo_paths, reply_media_files) ==
    LET same_list == NonEmptyDict(media_files) /\ "photos" \in DOMAIN media_files
        held == IF same_list
                THEN Get(MergeMedia(media_files, reply_media_files), "photos")
                ELSE photo_paths
    IN  IF Len(Get(reply_media_files, "photos")) > 0
        THEN held \o reply_media_files["photos"]
        ELSE held

\* Lines 185-200, after the reply's media were collected
MergeReply(c, reply_media_files, reply_has_media) ==
    IF reply_has_media /\ NonEmptyDict(reply_media_files)
    THEN [c EXCEPT !.media_files = MergeMedia(c.media_files, reply_media_files),
                   !.has_media = TRUE,
                   !.photo_paths = MergePhotoPaths(c.media_files, c.photo_paths, reply_media_files),
                   !.reply_media_files = reply_media_files,
                   !.reply_has_media = reply_has_media]
    ELSE [c EXCEPT !.reply_media_files = reply_media_files,
                   !.reply_has_media = reply_has_media]

DefaultPrompt == "default prompt"

\* _reply_help returns what the sending of the usage message returned
ReplyHelpReturnsSent(sent) == sent

\* _reply_help, lines 66-76: True, whether the usage message was sent or the send raised
ReplyHelpReturns(sent) == TRUE

\* Lines 202-211: the check of _reply_help up to its await, or, when there is a prompt or
\* media, the default prompt and the await of the reaction.
AfterCollect(c) ==
    IF c.prompt # "" \/ c.has_media
    THEN [c EXCEPT !.pc = "react",
                   !.prompt = IF c.prompt = "" /\ c.has_media THEN DefaultPrompt ELSE c.prompt]
    ELSE [c EXCEPT !.pc = "send_help"]

\* imagine_command is called: _collect_media_group_files(message, context.bot) is entered
Begin(h) ==
    /\ calls[h].pc = "start"
    /\ LET e == CollectEntry(media_group_cache, "trigger", calls[h].message)
       IN  /\ media_group_cache' = e.cache
           /\ calls' = [calls EXCEPT ![h].pc = e.pc]
           /\ seen' = [seen EXCEPT ![h].trigger = e.seen]
    /\ UNCHANGED << delivery_vars, messages, all_kinds >>

\* asyncio.sleep(0.8) is over: the cache is read again (for the log) and the download starts
WaitEnd(h, part) ==
    /\ calls[h].pc = "wait_" \o part
    /\ calls' = [calls EXCEPT ![h].pc = "download_" \o part]
    /\ seen' = [seen EXCEPT ![h][part].complete = OthersRecorded(media_group_cache, seen[h][part].message)]
    /\ UNCHANGED << delivery_vars, messages, all_kinds, media_group_cache >>

\* download_media_group_files returns for the triggering message; lines 134-150, then
\* the collection for message.reply_to_message is entered, or lines 202-211 follow.
DownloadTrigger(h) ==
    /\ calls[h].pc = "download_trigger"
    /\ LET id == calls[h].message
           media_files == DownloadMediaGroupFiles(media_group_cache, id)
           c == [calls[h] EXCEPT !.media_files = media_files,
                                 !.has_media = HasMedia(media_files),
                                 !.photo_paths = Get(media_files, "photos")]
           s == [seen[h] EXCEPT !.trigger.done = TRUE,
                                !.trigger.from = FragmentsOf(media_group_cache, id),
                                !.trigger.media_files = media_files]
           reply == messages[id].reply_to
       IN  IF Truthy(reply)
           THEN LET e == CollectEntry(media_group_cache, "reply", reply)
                IN  /\ media_group_cache' = e.cache
                    /\ calls' = [calls EXCEPT ![h] = [c EXCEPT !.pc = e.pc]]
                    /\ seen' = [seen EXCEPT ![h] = [s EXCEPT !.reply = e.seen]]
           ELSE /\ media_group_cache' = media_group_cache
                /\ calls' = [calls EXCEPT ![h] = AfterCollect(c)]
                /\ seen' = [seen EXCEPT ![h] = s]
    /\ UNCHANGED << delivery_vars, messages, all_kinds >>

\* download_media_group_files returns for the replied-to message; lines 185-211
DownloadReply(h) ==
    /\ calls[h].pc = "download_reply"
    /\ LET id == seen[h].reply.message
           reply_media_files == DownloadMediaGroupFiles(media_group_cache, id)
       IN  /\ calls' = [calls EXCEPT ![h] =
                          AfterCollect(MergeReply(calls[h], reply_media_files, HasMedia(reply_media_files)))]
           /\ seen' = [seen EXCEPT ![h].reply.done = TRUE,
                                   ![h].reply.from = FragmentsOf(media_group_cache, id),
                                   ![h].reply.media_files = reply_media_files,
                                   ![h].merged = TRUE]
    /\ UNCHANGED << delivery_vars, messages, all_kinds, media_group_cache >>

\* _reply_help: context.bot.send_message with the usage text returns or raises
SendHelp(h) ==
    /\ calls[h].pc = "send_help"
    /\ \E sent \in BOOLEAN :
          /\ calls' = [calls EXCEPT ![h].pc = IF ReplyHelpReturns(sent) THEN "done" ELSE "react"]
          /\ seen' = [seen EXCEPT ![h].help = @ + 1, ![h].help_failed = ~sent]
    /\ UNCHANGED << delivery_vars, messages, all_kinds, media_group_cache >>

\* _reply_emoji_reaction: set_message_reaction returns or raises (the exception is logged);
\* then the Interaction is built and the generation is invoked.
React(h) ==
    /\ calls[h].pc = "react"
    /\ calls' = [calls EXCEPT ![h].pc = "generate"]
    /\ seen' = [seen EXCEPT ![h].reactions = @ + 1]
    /\ UNCHANGED << delivery_vars, messages, all_kinds, media_group_cache >>

\* except Exception as imagine_error, with the generation called again
OnGenerationErrorRetry(c) == [c EXCEPT !.pc = "generate"]

\* except Exception as imagine_error (lines 244-248): the error is logged and the error
\* notice is sent
OnGenerationError(c) == [c EXCEPT !.pc = "notify"]

\* dify_service.invoke_model_streaming and response_service.send_streaming_response
\* return, or raise (lines 225-253): then the error notice is sent.
Generate(h) ==
    /\ calls[h].pc = "generate"
    /\ \E raised \in BOOLEAN :
          /\ calls' = [calls EXCEPT ![h] = IF raised THEN OnGenerationError(@)
                                                     ELSE [@ EXCEPT !.pc = "done"]]
          /\ seen' = [seen EXCEPT ![h].generations = @ + 1, ![h].raised = raised]
    /\ UNCHANGED << delivery_vars, messages, all_kinds, media_group_cache >>

\* context.bot.send_message with the error notice returns or raises
Notify(h) ==
    /\ calls[h].pc = "notify"
    /\ calls' = [calls EXCEPT ![h].pc = "done"]
    /\ seen' = [seen EXCEPT ![h].notices = @ + 1, ![h].notice_reply_to = calls[h].message]
    /\ UNCHANGED << delivery_vars, messages, all_kinds, media_group_cache >>

\* The message-listening path receives a fragment of the album and records it.
Record(f) ==
    /\ f \in AlbumFragments
    /\ media_group_cache' = AddToCache(media_group_cache, f)
    /\ media_group_cache' # media_group_cache
    /\ UNCHANGED << delivery_vars, messages, all_kinds, calls, seen >>

----------------------------------------------------------------------------
(* The specifications *)

NoHandler ==
    /\ messages = Chat(0, NoneId)
    /\ all_kinds = FALSE
    /\ media_group_cache = [g \in {Album} |-> << >>]
    /\ calls = [h \in Handlers |-> NoLocals]
    /\ seen = [h \in Handlers |-> NothingSeen]

Prompts == {"", "a red fox"}

\* One call of _send_imagine_result
Init == InitDelivery /\ NoHandler

\* One call of imagine_command by the CommandHandler, for any message of the chat
InitHandler ==
    /\ DeliveryAt("idle")
    /\ image_urls = << >>
    /\ final_answer = ""
    /\ trigger_message_id = NoneId
    /\ \E n \in 1..MaxGroupSize, album_reply \in {NoneId, Ids.photo} :
          messages = Chat(n, album_reply)
    /\ all_kinds \in BOOLEAN
    /\ media_group_cache = [g \in {Album} |-> << >>]
    /\ \E id \in DOMAIN messages, prompt \in Prompts :
          calls = [h \in Handlers |->
                      IF h = "command"
                      THEN [NoLocals EXCEPT !.pc = "start", !.message = id, !.prompt = prompt]
                      ELSE NoLocals]
    /\ seen = [h \in Handlers |-> NothingSeen]

\* Two concurrent calls of imagine_command, each for a fragment of the album or for the
\* text message that replies to the album's first fragment
InitRace ==
    /\ DeliveryAt("idle")
    /\ image_urls = << >>
    /\ final_answer = ""
    /\ trigger_message_id = NoneId
    /\ \E n \in 1..RaceGroupSize : messages = Chat(n, NoneId)
    /\ all_kinds = FALSE
    /\ media_group_cache = [g \in {Album} |-> << >>]
    /\ \E ids \in [Handlers -> AlbumFragments \cup {Ids.reply_to_album}] :
          calls = [h \in Handlers |->
                      [NoLocals EXCEPT !.pc = "start", !.message = ids[h], !.prompt = "a red fox"]]
    /\ seen = [h \in Handlers |-> NothingSeen]

----------------------------------------------------------------------------
Next ==
    \/ StartCall
    \/ Download
    \/ SendSinglePhoto
    \/ SendPhotoGroup
    \/ DeleteAfterSend
    \/ SendSinglePhotoNoCaption
    \/ SendPhotoGroupNoCaption
    \/ DeleteAfterNoCaption
    \/ SendOriginalDocument
    \/ SendOriginalGroup

Spec == Init /\ [][Next]_vars

\* The call under the condition that every download and every transport call returns
\* or raises: the await the call is suspended at is always resumed.
SpecFair == Spec /\ WF_vars(Next)

NextHandler ==
    \/ \E h \in Handlers : Begin(h)
    \/ \E h \in Handlers : WaitEnd(h, "trigger")
    \/ \E h \in Handlers : DownloadTrigger(h)
    \/ \E h \in Handlers : WaitEnd(h, "reply")
    \/ \E h \in Handlers : DownloadReply(h)
    \/ \E h \in Handlers : SendHelp(h)
    \/ \E h \in Handlers : React(h)
    \/ \E h \in Handlers : Generate(h)
    \/ \E h \in Handlers : Notify(h)
    \/ \E f \in DOMAIN messages : Record(f)

SpecHandler == InitHandler /\ [][NextHandler]_vars

\* The two calls are followed to the end of their media collection: what comes after
\* reads neither the cache nor the clock.
NextRace ==
    \/ \E h \in Handlers : Begin(h)
    \/ \E h \in Handlers : WaitEnd(h, "trigger")
    \/ \E h \in Handlers : DownloadTrigger(h)
    \/ \E h \in Handlers : WaitEnd(h, "reply")
    \/ \E h \in Handlers : DownloadReply(h)
    \/ \E f \in DOMAIN messages : Record(f)

SpecRace == InitRace /\ [][NextRace]_vars



----------------------------------------------------------------------------
(* Properties of _send_imagine_result *)

IsPrefix(s, t) == Len(s) <= Len(t) /\ \A i \in 1..Len(s) : s[i] = t[i]

IsPreviewSend(call) == call.op \in {"send_photo", "send_media_group"}

IsCaptioned(call) == call.caption # PyNone

\* The formats in the order of the claim, as the transport is given them.
FormatOrder == [i \in 1..Len(parse_modes) |-> Str(parse_modes[i])]

\* C1: the captioned preview sends go through the formats in the order HTML,
\* MarkdownV2, none, and a format is attempted only while no preview send of the call
\* has succeeded: once one has succeeded, no send at a later format follows.
C1_NoLaterFormatAfterSuccess ==
    [][captioned_modes' # captioned_modes =>
          (IsPrefix(captioned_modes', FormatOrder) /\ preview_ok = 0)]_vars

\* C2: every step that follows a captioned preview send failed with caption-too-long is
\* the resend of the same files, by the same transport operation and to the same reply
\* target, without caption, made before any send of a further format; it is the only
\* resend that follows that captioned send.
C2_CaptionTooLongResendsOnce ==
    [][/\ (IsPreviewSend(last_call) /\ IsCaptioned(last_call) /\ last_call.outcome = "too_long")
          => /\ IsPreviewSend(last_call')
             /\ ~IsCaptioned(last_call')
             /\ last_call'.op = last_call.op
             /\ last_call'.n_files = last_call.n_files
             /\ downloaded_files' = downloaded_files
             /\ last_call'.reply_to = last_call.reply_to
             /\ captioned_modes' = captioned_modes
             /\ nocaption_sends' = 1
       /\ nocaption_sends' <= 1]_vars

\* C2 witness: at the second format the captioned send failed with caption-too-long and
\* the resend without caption was the first preview send to succeed.
C2_Witness ==
    /\ IsPreviewSend(last_call) /\ ~IsCaptioned(last_call) /\ last_call.outcome = "ok"
    /\ preview_ok = 1
    /\ nocaption_sends = 1
    /\ Len(captioned_modes) = 2

\* C3: originals delivery makes at most two sends; a second one is made only after a
\* failed first one that replied to the preview id (set, and different from the trigger
\* id), and it replies to the trigger id; a first send that replied to the trigger id is
\* never followed by a second.
C3_OriginalsRetryOnce ==
    /\ Len(originals_log) <= 2
    /\ Len(originals_log) = 2 =>
          /\ originals_log[1].outcome # "ok"
          /\ Truthy(preview_message_id)
          /\ preview_message_id # trigger_message_id
          /\ originals_log[1].reply_to = preview_message_id
          /\ originals_log[2].reply_to = trigger_message_id
          /\ Truthy(trigger_message_id)
    /\ (Len(originals_log) >= 1 /\ originals_log[1].reply_to = trigger_message_id)
          => Len(originals_log) = 1

\* C3 witness: the first send, replying to the preview, failed and the second was made.
C3_Witness ==
    /\ pc = "done"
    /\ Len(originals_log) = 2
    /\ originals_log[1].reply_to = preview_message_id
    /\ originals_log[2].reply_to = TriggerId

\* C4: the URLs requested are the first URLs of the list, in order, never more than 10
\* of them; once the loop is over they are exactly the first min(n, 10); and
\* downloaded_files never holds more than 10 files.
C4_AtMostTenFetched ==
    /\ Len(fetched) <= MaxMediaGroup
    /\ IsPrefix(fetched, image_urls)
    /\ Len(downloaded_files) <= MaxMediaGroup
    /\ Len(downloaded_files) <= Len(fetched)
    /\ pc \notin {"start", "download"} =>
          Len(fetched) = (IF Len(image_urls) < MaxMediaGroup THEN Len(image_urls) ELSE MaxMediaGroup)

\* C4 witness: 12 URLs were returned and the call ended after exactly 10 requests.
C4_Witness ==
    /\ Len(image_urls) = 12
    /\ pc = "done"
    /\ Len(fetched) = 10

\* C5: when the download loop ends with no file (every download failed, or there was no
\* URL), the call returns False at once, and it has made no transport call: no preview
\* send, no originals send, no deletion of the placeholder.
C5_NoFilesNoSend ==
    /\ pc \in {"start", "download"} => last_call = NoCall
    /\ (pc \notin {"start", "download"} /\ Len(downloaded_files) = 0) =>
          /\ pc = "done"
          /\ result = FALSE
          /\ last_call = NoCall
          /\ captioned_modes = << >>
          /\ preview_ok = 0
          /\ originals_log = << >>

\* C5 witness: two URLs were requested, both downloads failed, the call returned.
C5_Witness ==
    /\ pc = "done"
    /\ Len(fetched) = 2
    /\ failed_downloads = 2
    /\ downloaded_files = << >>
    /\ result = FALSE

\* C12: a step of originals delivery, whether its send returns or raises, is followed by
\* the retry of the originals or by the end of the call with True; it sends no preview,
\* at no format, and the call that went through originals delivery never returns False.
C12_OriginalsNeverUndoSuccess ==
    [][pc = "send_originals" =>
          /\ pc' \in {"send_originals", "done"}
          /\ pc' = "done" => result' = TRUE
          /\ pc' = "send_originals" => result' = "none"
          /\ captioned_modes' = captioned_modes
          /\ nocaption_sends' = nocaption_sends
          /\ preview_ok' = preview_ok
          /\ mode_idx' = mode_idx
          /\ ~IsPreviewSend(last_call')]_vars

\* C12 witness: the preview was sent at the first format, the originals send that
\* replied to it failed and so did the retry; the call returned True.
C12_Witness ==
    /\ pc = "done"
    /\ result = TRUE
    /\ preview_ok = 1
    /\ Len(captioned_modes) = 1
    /\ Len(originals_log) = 2
    /\ originals_log[1].outcome = "other"
    /\ originals_log[2].outcome = "other"

IsOriginalsSend(call) == call.op \in {"send_document", "send_document_group"}

\* C13: the except clause of the format loop catches at most one exception per format;
\* when it has caught an exception without the caption-too-long text at each of the
\* three formats, the call is over with False, and no originals send was made.
C13_AllFormatsFailNoOriginals ==
    /\ Len(escaped) <= Len(parse_modes)
    /\ Len(escaped) <= Len(captioned_modes)
    /\ (Len(escaped) = Len(parse_modes) /\ \A i \in 1..Len(escaped) : ~CaptionTooLong(escaped[i])) =>
          /\ pc = "done"
          /\ result = FALSE
          /\ Len(captioned_modes) = Len(parse_modes)
          /\ originals_log = << >>
          /\ ~IsOriginalsSend(last_call)

\* C13 witness: the captioned send raised an exception without the caption-too-long
\* text at each of the three formats, no preview was sent, the call returned.
C13_Witness ==
    /\ pc = "done"
    /\ result = FALSE
    /\ escaped = << "other", "other", "other" >>
    /\ Len(captioned_modes) = 3
    /\ preview_ok = 0
    /\ IsPreviewSend(last_call)

\* C14 as claimed: the files of one call are written to different paths, so that
\* downloaded_files never holds the same file name twice.
C14_DistinctFileNames ==
    \A i \in 1..Len(downloaded_files), j \in 1..Len(downloaded_files) :
        i # j => downloaded_files[i] # downloaded_files[j]

\* The number of generated names used by the requests before the i-th
UuidsBefore(i) == Cardinality({j \in 1..(i - 1) : NeedsUuid(fetched[j])})

RECURSIVE Succeeded(_)
\* The file names of the first i requests that gave a file, in the order of the requests
Succeeded(i) ==
    IF i = 0 THEN << >>
    ELSE IF fetch_ok[i]
         THEN Append(Succeeded(i - 1), Filename(fetched[i], UuidsBefore(i)))
         ELSE Succeeded(i - 1)

\* C15: downloaded_files holds, in URL order, one file for each of the first 10 URLs
\* whose download gave a file and nothing else; every URL is requested once, the failed
\* ones too, and the loop goes through the first 10 URLs whatever failed.
C15_DownloadedIsSubsequence ==
    /\ Len(fetch_ok) = Len(fetched)
    /\ IsPrefix(fetched, UrlsToFetch(image_urls))
    /\ \A i \in 1..Len(fetched), j \in 1..Len(fetched) : i # j => fetched[i] # fetched[j]
    /\ downloaded_files = Succeeded(Len(fetched))
    /\ Len(downloaded_files) + failed_downloads = Len(fetched)
    /\ pc \notin {"start", "download"} => fetched = UrlsToFetch(image_urls)

\* C15 witness: of four URLs the first and the third failed; the files of the second and
\* of the fourth are held, in that order.
C15_Witness ==
    /\ pc = "send_preview"
    /\ Len(image_urls) = 4
    /\ fetch_ok = << FALSE, TRUE, FALSE, TRUE >>
    /\ Len(downloaded_files) = 2
    /\ downloaded_files[1] = Filename(image_urls[2], 0)
    /\ downloaded_files[2] = Filename(image_urls[4], 1)

\* C16 as claimed: the first originals send replies to the preview message of the call
\* whenever a preview send succeeded, by a captioned send or by a resend without
\* caption; to the triggering message (or to nothing, when there is none) only when no
\* preview send succeeded.
C16_OriginalsReplyToPreview ==
    Len(originals_log) >= 1 =>
        LET target == originals_log[1].reply_to
        IN  IF preview_ok > 0
            THEN /\ Truthy(preview_message_id)
                 /\ target = preview_message_id
                 /\ target >= FirstSentId
            ELSE target = trigger_message_id

\* C17 as claimed: the captioned send of the third format is given no parse mode (the
\* absent value), not a string that names a format.
C17_ThirdFormatNoParseMode ==
    (IsPreviewSend(last_call) /\ IsCaptioned(last_call)
        /\ Len(captioned_modes) = Len(parse_modes)) =>
        last_call.parse_mode = PyNone

\* C19 as claimed: at most one preview send of a call succeeds at the transport.
C19_AtMostOnePreview == preview_ok <= 1

\* C20 as claimed: the call returns True only after a preview send succeeded, and no
\* originals send is made in a call none of whose preview sends succeeded.
C20_SuccessOnlyWithPreview ==
    /\ (pc = "done" /\ result = TRUE) => preview_ok >= 1
    /\ Len(originals_log) >= 1 => preview_ok >= 1

\* C21: delete_message is called for the placeholder only after a preview send of the
\* call has succeeded: each call of it follows a successful send of its own, no call of
\* it is made while no preview send has succeeded, and a call in which every preview
\* send failed ends without any.
C21_DeleteOnlyAfterPreview ==
    /\ delete_calls <= preview_ok
    /\ last_call.op = "delete_message" => preview_ok >= 1
    /\ pc \in {"delete_after_send", "delete_after_nocaption"} =>
          (preview_ok = delete_calls + 1 /\ Truthy(sent_message))
    /\ preview_ok = 0 => delete_calls = 0

\* C21 witness: the send of the first format failed and no deletion followed; the send
\* of the second format succeeded and the placeholder was then deleted.
C21_Witness ==
    /\ last_call.op = "delete_message"
    /\ last_call.outcome = "ok"
    /\ delete_calls = 1
    /\ preview_ok = 1
    /\ Len(captioned_modes) = 2
    /\ escaped = << "other" >>

\* C22: when every download and every transport call returns or raises, the call ends
\* with True or False; all along it has made at most three captioned preview sends, at
\* most one resend without caption for a format, and at most two originals sends.
C22_TerminatesWithinBounds ==
    /\ <>(pc = "done" /\ (result = TRUE \/ result = FALSE))
    /\ [](/\ Len(captioned_modes) <= Len(parse_modes)
          /\ nocaption_sends <= 1
          /\ Len(originals_log) <= 2
          /\ mode_idx <= Len(parse_modes))

\* C22 witness: a call that ended after three captioned sends, a resend without caption
\* at the third format and two originals sends.
C22_Witness ==
    /\ pc = "done"
    /\ result = TRUE
    /\ Len(captioned_modes) = 3
    /\ nocaption_sends = 1
    /\ Len(originals_log) = 2

----------------------------------------------------------------------------
(* Properties of imagine_command and _collect_media_group_files *)

Parts == {"trigger", "reply"}

InAlbum(id) == id # NoneId /\ messages[id].media_group_id = Album

Range(q) == {q[i] : i \in 1..Len(q)}

\* C6: a collection for a fragment of the album, when the other fragments of the album
\* were all recorded by the time its debounce wait ended (or by the time it went on
\* without waiting), resolves the media of exactly the album's fragments, each once, in
\* the order they were recorded; for every album size and every fragment.
C6_CompleteGroupMerged ==
    \A h \in Handlers, part \in Parts :
        LET s == seen[h][part]
        IN  (s.done /\ InAlbum(s.message) /\ s.complete) =>
               /\ Range(s.from) = AlbumFragments
               /\ Len(s.from) = Cardinality(AlbumFragments)
               /\ s.from = media_group_cache[Album]
               /\ \A k \in Kinds : Get(s.media_files, k) = MediaOf(media_group_cache[Album], k)
               /\ \A f \in AlbumFragments :
                     Cardinality({<<k, i>> \in Kinds \X (1..Len(s.from)) :
                                     i <= Len(Get(s.media_files, k)) /\ Get(s.media_files, k)[i] = f}) = 1

\* C6 witness: the second of three fragments triggered the call, was alone in the cache,
\* the call waited, the two others were recorded meanwhile and all three were merged.
C6_Witness ==
    LET s == seen["command"].trigger
    IN  /\ s.done /\ s.complete
        /\ s.message = 2
        /\ s.count = 1
        /\ s.waits = 1
        /\ Len(s.from) = 3
        /\ s.from[1] = 2

\* C7: after the merge of the replied-to message's media, every kind of the mapping holds
\* the trigger's list followed by the reply's list, nothing dropped, reordered or
\* deduplicated.
C7_MergeIsConcatenation ==
    \A h \in Handlers :
        seen[h].merged =>
            \A k \in Kinds :
                Get(calls[h].media_files, k) =
                    Get(seen[h].trigger.media_files, k) \o Get(seen[h].reply.media_files, k)

\* C7 witness: the trigger carries the photo of the message it replies to; the merged
\* list holds the same path twice.
C7_Witness ==
    /\ seen["command"].merged
    /\ calls["command"].message = Ids.same_photo
    /\ Get(calls["command"].media_files, "photos") = << Ids.photo, Ids.photo >>

\* Whether the call of handler h has made the debounce wait for the album.
WaitedForAlbum(h) ==
    \E part \in Parts : InAlbum(seen[h][part].message) /\ seen[h][part].waits > 0

\* C8 as claimed: of two consumers of the same media group at most one makes the
\* debounce wait.
C8_AtMostOneWaits ==
    ~(WaitedForAlbum("command") /\ WaitedForAlbum("listener"))

\* C8 amended: two consumers that both make the debounce wait for the album are
\* processing the same fragment; consumers of different fragments never both wait.
C8_DifferentFragmentsOneWait ==
    \A p1 \in Parts, p2 \in Parts :
        LET s1 == seen["command"][p1]
            s2 == seen["listener"][p2]
        IN  (InAlbum(s1.message) /\ InAlbum(s2.message) /\ s1.waits > 0 /\ s2.waits > 0)
               => s1.message = s2.message

\* C8 witness: the two consumers were triggered by the first and the second fragment,
\* both finished their collection, and exactly one of them waited.
C8_Witness ==
    /\ seen["command"].trigger.message = 1 /\ seen["command"].trigger.done
    /\ seen["listener"].trigger.message = 2 /\ seen["listener"].trigger.done
    /\ seen["command"].trigger.waits + seen["listener"].trigger.waits = 1

\* C9: a collection makes the debounce wait once when its message has a media group id
\* and the count read after recording it is at most one, and never otherwise; after the
\* entry it is waiting or downloading, and it ends with the media of the fragments cached
\* at that time, its own among them, whether or not the group is complete.
C9_WaitOnceThenResolve ==
    \A h \in Handlers, part \in Parts :
        LET s == seen[h][part]
        IN  s.message # NoneId =>
               /\ s.waits \in {0, 1}
               /\ s.waits = 1 <=> (messages[s.message].media_group_id # NoGroup /\ s.count <= 1)
               /\ messages[s.message].media_group_id # NoGroup => s.count >= 1
               /\ ~s.done => calls[h].pc \in {"wait_" \o part, "download_" \o part}
               /\ calls[h].pc = "wait_" \o part => s.waits = 1
               /\ s.done =>
                     /\ s.message \in Range(s.from)
                     /\ IsPrefix(s.from, FragmentsOf(media_group_cache, s.message))
                     /\ \A k \in Kinds : Get(s.media_files, k) = MediaOf(s.from, k)

\* C9 witness: the call waited for an album of three fragments and went on with two.
C9_Witness ==
    LET s == seen["command"].trigger
    IN  /\ s.done
        /\ s.waits = 1
        /\ Cardinality(AlbumFragments) = 3
        /\ Len(s.from) = 2

\* C10: a call that ends its collection with an empty prompt and no media sends the usage
\* message once and does nothing more: no reaction, no generation, no error notice,
\* whether the usage message was sent or its sending raised.
C10_UsageOnly ==
    \A h \in Handlers :
        LET c == calls[h]
            s == seen[h]
        IN  /\ (c.pc \in {"send_help", "react", "generate", "notify", "done"}
                  /\ c.prompt = "" /\ ~c.has_media) =>
                   /\ c.pc \in {"send_help", "done"}
                   /\ s.help = (IF c.pc = "done" THEN 1 ELSE 0)
                   /\ s.reactions = 0
                   /\ s.generations = 0
                   /\ s.notices = 0
            /\ s.help > 0 => (c.prompt = "" /\ ~c.has_media)

\* C10 witness: the sending of the usage message raised and the call ended there.
C10_Witness ==
    /\ calls["command"].pc = "done"
    /\ seen["command"].help = 1
    /\ seen["command"].help_failed
    /\ seen["command"].reactions = 0

\* C11: the generation is invoked at most once in a call; when it raises, the error
\* notice is sent once, as a reply to the triggering message, and the call ends; no
\* notice is sent when the generation returned.
C11_ErrorNoticeOnceNoRetry ==
    \A h \in Handlers :
        LET c == calls[h]
            s == seen[h]
        IN  /\ s.generations <= 1
            /\ s.notices <= 1
            /\ s.raised => s.generations = 1 /\ c.pc \in {"notify", "done"}
            /\ c.pc = "notify" <=> (s.raised /\ s.notices = 0)
            /\ (s.raised /\ c.pc = "done") =>
                  /\ s.notices = 1
                  /\ s.notice_reply_to = c.message
                  /\ s.help = 0
            /\ ~s.raised => s.notices = 0

\* C11 witness: the generation raised for a message that replies to the photo; the
\* notice replied to the triggering message and the call ended.
C11_Witness ==
    /\ calls["command"].pc = "done"
    /\ calls["command"].message = Ids.reply_to_photo
    /\ seen["command"].raised
    /\ seen["command"].generations = 1
    /\ seen["command"].notices = 1
    /\ seen["command"].notice_reply_to = Ids.reply_to_photo

\* C18 as claimed: the photo_paths given to the generation are the "photos" list of the
\* media_files given with them.
C18_PhotoPathsArePhotos ==
    \A h \in Handlers :
        seen[h].generations >= 1 =>
            calls[h].photo_paths = Get(calls[h].media_files, "photos")

====
